---- MODULE Spec2Model ----
(***************************************************************************)
(* http2-connect-proxy: a TCP listener that tunnels every accepted         *)
(* connection through one HTTP/2 CONNECT request.                          *)
(*                                                                         *)
(* The model follows the current revision of the program (the file with    *)
(* copyProxy / copyClient / handleConnection and the two signal channels). *)
(* One process (main) runs the accept loop; every accepted connection gets *)
(* three goroutines: handleConnection (hc), copyProxy (cp) and copyClient  *)
(* (cc).  The TCP client, the HTTP/2 transport and the UDP dial of         *)
(* getLocalIP are the environment.                                         *)
(***************************************************************************)
EXTENDS Integers, Sequences, FiniteSets, TLC

VARIABLES
    main,   \* the process: [pc, exitBy]
    sess    \* per accepted connection: the session's state (a record)

vars == <<main, sess>>

(***************************************************************************)
(* Bounds of the model.                                                    *)
(***************************************************************************)
MaxBytes == 2      \* bytes a client sends at most in one session
MaxResp == 2       \* bytes the upstream sends at most in one session

DoneCap == 2       \* make(chan bool, 2)
DoneErrorCap == 1  \* make(chan bool, 1)

Sessions == {1}    \* connections the accept loop takes in Spec
Sessions2 == {1, 2} \* connections the accept loop takes in SpecProc

(***************************************************************************)
(* Pure helpers.                                                           *)
(***************************************************************************)
RECURSIVE SumSeq(_)
SumSeq(q) == IF q = <<>> THEN 0 ELSE Head(q) + SumSeq(Tail(q))

Take(q, k) == SubSeq(q, 1, k)
Drop(q, k) == SubSeq(q, k + 1, Len(q))

IsPrefix(p, q) == Len(p) <= Len(q) /\ Take(q, Len(p)) = p

\* Bytes lo..hi of a stream, each tagged with where it comes from.
RECURSIVE Stream(_, _, _)
Stream(tag, lo, hi) ==
    IF lo > hi THEN <<>> ELSE <<(<<tag, lo>>)>> \o Stream(tag, lo + 1, hi)

\* The n bytes the client sends after `have` bytes were already read.
ClientChunk(have, n) == Stream("cli", have + 1, have + n)
\* The n bytes res.Body delivers after `have` bytes were already read.
BodyChunk(have, n) == Stream("up", have + 1, have + n)

\* fmt.Sprintf("PROXY TCP4 %v 127.0.0.1 %v 3306\r\n", localIP, remotePort):
\* the format string's literal segments and its two substitutions, in order.
ProxyHeader(localIP, remotePort) ==
    << <<"hdr", "PROXY TCP4 ">>, <<"hdr", localIP>>, <<"hdr", " 127.0.0.1 ">>,
       <<"hdr", remotePort>>, <<"hdr", " 3306\\r\\n">> >>

\* WriteCounter.Write: logs len(p), returns (len(p), nil).
WriteCounterWrite(log, p) == Append(log, Len(p))

\* io.TeeReader's Read: what it reads (n > 0) it writes to the counter.
TeeRead(log, p) == IF Len(p) > 0 THEN WriteCounterWrite(log, p) ELSE log

(***************************************************************************)
(* The state after construction.                                           *)
(***************************************************************************)
\* A connection not yet accepted, whose client will send at most cliBytes
\* bytes and whose upstream will answer with at most upBytes bytes.
NoSession(cliBytes, upBytes) ==
    [ cliBytes |-> cliBytes,
      upBytes |-> upBytes,
      hcPc |-> "idle",          \* idle, start, select, close_conn, close_pw, returned
      sel |-> "none",           \* the channel the select received from
      done |-> 0,               \* signals pending in done (capacity 2)
      doneError |-> 0,          \* signals pending in doneError (capacity 1)
      conn |-> "open",          \* the accepted connection's descriptor
      linger0 |-> FALSE,        \* SetLinger(0) was called
      closeKind |-> "none",     \* none, graceful (FIN), reset (RST)
      peer |-> "open",          \* the TCP client: open, fin, rst
      connRead |-> <<>>,        \* bytes read from conn
      connWritten |-> <<>>,     \* bytes written to conn
      logRead |-> <<>>,         \* "Read %d bytes from client" lines
      logWrote |-> <<>>,        \* "Wrote %d bytes to client" lines
      ccPc |-> "idle",          \* idle, start, peek, whdr, wbuf, fill, returned, panicked
      ccEnd |-> "none",         \* none, eof, read_err, write_err
      dial |-> "none",          \* getLocalIP's net.Dial: none, ok, fail
      header |-> <<>>,
      buf |-> <<>>,             \* bufio.Reader's buffered bytes
      pwPend |-> <<>>,          \* the rest of the pw.Write in progress
      pipeOut |-> <<>>,         \* what the pipe's reader has received
      pwClosed |-> FALSE,
      prClosed |-> FALSE,
      cpPc |-> "idle",          \* idle, roundtrip, body_read, conn_write, returned
      status |-> "unknown",     \* unknown, err, 200, 503
      respRead |-> 0,           \* bytes read from res.Body
      cpPend |-> <<>>,          \* the rest of the conn.Write in progress
      cpEnd |-> "none" ]        \* none, eof, write_err, or the read error's kind

Init ==
    /\ main = [pc |-> "startup", exitBy |-> "none"]
    /\ sess = [s \in Sessions2 |-> NoSession(MaxBytes, MaxResp)]

\* Two connections under way at once.  To keep the product of two sessions
\* small the first carries at most one byte each way and the second none.
InitProc ==
    /\ main = [pc |-> "startup", exitBy |-> "none"]
    /\ sess = [s \in Sessions2 |->
                 IF s = 1 THEN NoSession(1, 1) ELSE NoSession(0, 0)]

Serving == main.pc = "serving"

Set(s, r) == sess' = [sess EXCEPT ![s] = r]

(***************************************************************************)
(* main: startup and the accept loop.                                      *)
(***************************************************************************)
\* flag parsing, url.Parse and net.Listen: any failure ends the process.
Startup ==
    /\ main.pc = "startup"
    /\ \E outcome \in {"ok", "config", "listen"} :
          main' = IF outcome = "ok"
                  THEN [main EXCEPT !.pc = "serving"]
                  ELSE [pc |-> "exited", exitBy |-> outcome]
    /\ UNCHANGED sess

\* ln.Accept() returned a connection: go handleConnection(url, tr, conn).
Accept(s) ==
    /\ Serving
    /\ sess[s].hcPc = "idle"
    /\ \A t \in DOMAIN sess : t < s => sess[t].hcPc # "idle"
    /\ Set(s, [sess[s] EXCEPT !.hcPc = "start"])
    /\ UNCHANGED main

\* ln.Accept() returned an error: log.Fatal.
AcceptError ==
    /\ Serving
    /\ main' = [pc |-> "exited", exitBy |-> "accept"]
    /\ UNCHANGED sess

(***************************************************************************)
(* handleConnection.                                                       *)
(***************************************************************************)
\* make the channels and the pipe, start both copy directions.
HcStart(s) ==
    /\ Serving
    /\ sess[s].hcPc = "start"
    /\ Set(s, [sess[s] EXCEPT !.hcPc = "select", !.cpPc = "roundtrip",
                              !.ccPc = "start"])
    /\ UNCHANGED main

\* Variant: SetLinger(0) in both cases of the select.
SelectCaseLingerAlways(r, ch) ==
    [r EXCEPT ![ch] = @ - 1, !.sel = ch, !.hcPc = "close_conn", !.linger0 = TRUE]

\* The session after the select took the case of channel ch.
SelectCase(r, ch) ==
    [r EXCEPT ![ch] = @ - 1, !.sel = ch, !.hcPc = "close_conn",
              !.linger0 = IF ch = "doneError" THEN TRUE ELSE @]

\* select { case <-done: ; case <-doneError: conn.SetLinger(0) }
HcSelect(s) ==
    /\ Serving
    /\ sess[s].hcPc = "select"
    /\ \E ch \in {"done", "doneError"} :
          /\ sess[s][ch] > 0
          /\ Set(s, SelectCase(sess[s], ch))
    /\ UNCHANGED main

\* Variant: SetLinger(0) comes after conn.Close() and has no effect.
CloseKindLingerLate(r) == "graceful"

\* What conn.Close() sends: an RST with zero linger, a FIN otherwise.
CloseKind(r) == IF r.linger0 THEN "reset" ELSE "graceful"

\* conn.Close()
HcCloseConn(s) ==
    /\ Serving
    /\ sess[s].hcPc = "close_conn"
    /\ Set(s, [sess[s] EXCEPT !.conn = "closed", !.closeKind = CloseKind(sess[s]),
                              !.hcPc = "close_pw"])
    /\ UNCHANGED main

\* Variant: after the teardown the select is entered again.
PipeClosedThenSelect(r) == [r EXCEPT !.pwClosed = TRUE, !.hcPc = "select"]

\* Variant: return without pw.Close().
PipeClosedSkipped(r) == [r EXCEPT !.hcPc = "returned"]

\* pw.Close(), then handleConnection returns.
PipeClosed(r) == [r EXCEPT !.pwClosed = TRUE, !.hcPc = "returned"]

HcClosePipe(s) ==
    /\ Serving
    /\ sess[s].hcPc = "close_pw"
    /\ Set(s, PipeClosed(sess[s]))
    /\ UNCHANGED main

(***************************************************************************)
(* copyProxy.                                                              *)
(***************************************************************************)
\* Variant: the failure is signalled on both channels.
CpFailBoth(r, why) ==
    [r EXCEPT !.doneError = @ + 1, !.done = @ + 1, !.cpEnd = why,
              !.cpPc = "returned"]

\* doneError <- true; return   (blocks while the channel is full)
CpFail(r, why) ==
    [r EXCEPT !.doneError = @ + 1, !.cpEnd = why, !.cpPc = "returned"]

\* done <- true; return
CpDone(r) == [r EXCEPT !.done = @ + 1, !.cpEnd = "eof", !.cpPc = "returned"]

\* tr.RoundTrip(req) returns: an error, or the response headers.
CpRoundTrip(s) ==
    /\ Serving
    /\ sess[s].cpPc = "roundtrip"
    /\ \E outcome \in {"err", "503", "200"} :
          LET r == [sess[s] EXCEPT !.status = outcome] IN
          IF outcome = "200"
          THEN Set(s, [r EXCEPT !.cpPc = "body_read"])
          ELSE /\ r.doneError < DoneErrorCap
               /\ Set(s, CpFail(r, "none"))
    /\ UNCHANGED main

ReadErrors == {"StreamError", "ConnectionError", "GoAwayError", "timeout"}

\* io.Copy's read of the TeeReader over res.Body: data, EOF or an error.
CpBodyRead(s) ==
    /\ Serving
    /\ sess[s].cpPc = "body_read"
    /\ \/ \E n \in 1..(sess[s].upBytes - sess[s].respRead) :
             LET p == BodyChunk(sess[s].respRead, n) IN
             Set(s, [sess[s] EXCEPT !.respRead = @ + n,
                                    !.logWrote = TeeRead(@, p),
                                    !.cpPend = p, !.cpPc = "conn_write"])
       \/ /\ sess[s].done < DoneCap
          /\ Set(s, CpDone(sess[s]))
       \/ \E e \in ReadErrors :
             /\ sess[s].doneError < DoneErrorCap
             /\ Set(s, CpFail(sess[s], e))
    /\ UNCHANGED main

\* conn.Write of the bytes just read: the kernel takes k of them; the call
\* returns when it took them all, or fails once the descriptor is closed or
\* the client has reset the connection.
CpConnWrite(s) ==
    /\ Serving
    /\ sess[s].cpPc = "conn_write"
    /\ \/ /\ sess[s].conn = "open" /\ sess[s].peer # "rst"
          /\ \E k \in 1..Len(sess[s].cpPend) :
                Set(s, [sess[s] EXCEPT
                          !.connWritten = @ \o Take(sess[s].cpPend, k),
                          !.cpPend = Drop(@, k),
                          !.cpPc = IF k = Len(sess[s].cpPend)
                                   THEN "body_read" ELSE @])
       \/ /\ sess[s].conn = "closed" \/ sess[s].peer = "rst"
          /\ sess[s].doneError < DoneErrorCap
          /\ Set(s, CpFail([sess[s] EXCEPT !.cpPend = <<>>], "write_err"))
    /\ UNCHANGED main

(***************************************************************************)
(* copyClient.                                                             *)
(***************************************************************************)
LocalIP == "10.0.0.5"       \* the UDP socket's local address
RemotePort == "40001"       \* the client's TCP port

\* header := ""; if localIP != nil && remotePort != 0 { header = Sprintf(...) }
BuildHeader(localIP, remotePort) ==
    IF localIP # "nil" /\ remotePort # "0"
    THEN ProxyHeader(localIP, remotePort) ELSE <<>>

\* Variant: a read error of the client connection is reported as a failure.
CcReturnFailing(r, why) ==
    IF why = "read_err"
    THEN [r EXCEPT !.doneError = @ + 1, !.ccEnd = why, !.ccPc = "returned"]
    ELSE [r EXCEPT !.done = @ + 1, !.ccEnd = why, !.ccPc = "returned"]

\* The deferred done <- true, then copyClient returns.
CcReturn(r, why) ==
    [r EXCEPT !.done = @ + 1, !.ccEnd = why, !.ccPc = "returned"]

\* getLocalIP and getRemotePort build the header.  net.Dial failing leaves
\* conn nil, and `defer conn.Close()` on it panics: the deferred send of
\* copyClient runs, then the runtime ends the process.
CcGetLocalIP(s) ==
    /\ Serving
    /\ sess[s].ccPc = "start"
    /\ \/ /\ Set(s, [sess[s] EXCEPT !.dial = "ok",
                                    !.header = BuildHeader(LocalIP, RemotePort),
                                    !.ccPc = "peek"])
          /\ UNCHANGED main
       \/ /\ sess[s].done < DoneCap
          /\ Set(s, [sess[s] EXCEPT !.dial = "fail", !.done = @ + 1,
                                    !.ccPc = "panicked"])
          /\ main' = [pc |-> "exited", exitBy |-> "panic"]

\* What a Read of the client connection can return now: "data", "eof", "err".
ConnReadOutcomes(r) ==
    IF r.conn = "closed" \/ r.peer = "rst" THEN {"err"}
    ELSE IF r.peer = "fin" THEN {"eof"}
    ELSE IF Len(r.connRead) < r.cliBytes THEN {"data"} ELSE {}

\* Variant: io.MultiReader(r, header), the buffered bytes before the header.
StartCopyPayloadFirst(r, p) ==
    [r EXCEPT !.pwPend = p, !.buf = r.header, !.ccPc = "whdr"]

\* io.Copy(pw, io.MultiReader(header, r)) once the buffer holds bytes p:
\* the header is written first, the buffered bytes after it.
StartCopy(r, p) ==
    IF r.header = <<>>
    THEN [r EXCEPT !.pwPend = p, !.buf = <<>>, !.ccPc = "wbuf"]
    ELSE [r EXCEPT !.pwPend = r.header, !.buf = p, !.ccPc = "whdr"]

\* A Read of conn through the TeeReader.
ConnRead(r, p) ==
    [r EXCEPT !.connRead = @ \o p, !.logRead = TeeRead(@, p)]

\* Variant: the first byte is read, not peeked, and is not forwarded.
AfterPeekConsuming(r, o, p) ==
    IF o = "data" THEN StartCopy(ConnRead(r, p), Tail(p))
    ELSE CcReturn(ConnRead(r, <<>>), IF o = "eof" THEN "eof" ELSE "read_err")

\* Variant: Peek's error is ignored and the copy starts anyway.
AfterPeekUnchecked(r, o, p) ==
    IF o = "data" THEN StartCopy(ConnRead(r, p), p)
    ELSE StartCopy([ConnRead(r, <<>>) EXCEPT
                       !.ccEnd = IF o = "eof" THEN "eof" ELSE "read_err"], <<>>)

\* _, err := r.Peek(1); if err != nil { return }; io.Copy(pw, ...)
\* o is what the first Read returned, p its bytes.
AfterPeek(r, o, p) ==
    IF o = "data" THEN StartCopy(ConnRead(r, p), p)
    ELSE CcReturn(ConnRead(r, <<>>), IF o = "eof" THEN "eof" ELSE "read_err")

\* r.Peek(1): the first Read of the client connection.
CcPeek(s) ==
    /\ Serving
    /\ sess[s].ccPc = "peek"
    /\ \E o \in ConnReadOutcomes(sess[s]) :
          IF o = "data"
          THEN \E n \in 1..(sess[s].cliBytes - Len(sess[s].connRead)) :
                  Set(s, AfterPeek(sess[s], o,
                                   ClientChunk(Len(sess[s].connRead), n)))
          ELSE /\ sess[s].done < DoneCap
               /\ Set(s, AfterPeek(sess[s], o, <<>>))
    /\ UNCHANGED main

\* A pw.Write returned: all its bytes were taken, or the pipe was closed.
CcPipeWrite(s) ==
    /\ Serving
    /\ sess[s].ccPc \in {"whdr", "wbuf"}
    /\ \/ /\ sess[s].pwPend = <<>>
          /\ ~sess[s].pwClosed /\ ~sess[s].prClosed
          /\ Set(s, IF sess[s].ccPc = "whdr"
                    THEN [sess[s] EXCEPT !.pwPend = sess[s].buf, !.buf = <<>>,
                                         !.ccPc = "wbuf"]
                    ELSE [sess[s] EXCEPT !.ccPc = "fill"])
       \/ /\ sess[s].pwClosed \/ sess[s].prClosed
          /\ sess[s].done < DoneCap
          /\ Set(s, CcReturn([sess[s] EXCEPT !.pwPend = <<>>, !.buf = <<>>],
                             "write_err"))
    /\ UNCHANGED main

\* The copy loop's next Read of the client connection.
CcFill(s) ==
    /\ Serving
    /\ sess[s].ccPc = "fill"
    /\ \E o \in ConnReadOutcomes(sess[s]) :
          IF o = "data"
          THEN \E n \in 1..(sess[s].cliBytes - Len(sess[s].connRead)) :
                  LET p == ClientChunk(Len(sess[s].connRead), n) IN
                  Set(s, [ConnRead(sess[s], p) EXCEPT !.pwPend = p,
                                                      !.ccPc = "wbuf"])
          ELSE /\ sess[s].done < DoneCap
               /\ Set(s, CcReturn(ConnRead(sess[s], <<>>),
                                  IF o = "eof" THEN "eof" ELSE "read_err"))
    /\ UNCHANGED main

(***************************************************************************)
(* The environment: the TCP client and the HTTP/2 transport.               *)
(***************************************************************************)
\* The client closes its side (FIN) or aborts the connection (RST).
ClientClose(s) ==
    /\ Serving
    /\ sess[s].hcPc \notin {"idle"}
    /\ sess[s].peer = "open"
    /\ \E how \in {"fin", "rst"} : Set(s, [sess[s] EXCEPT !.peer = how])
    /\ UNCHANGED main

\* The transport reads the request body (the pipe's read end) from the moment
\* the request is under way, without waiting for the response headers.
TransportReadBody(s) ==
    /\ Serving
    /\ sess[s].cpPc # "idle"
    /\ ~sess[s].pwClosed /\ ~sess[s].prClosed
    /\ \E k \in 1..Len(sess[s].pwPend) :
          Set(s, [sess[s] EXCEPT !.pipeOut = @ \o Take(sess[s].pwPend, k),
                                 !.pwPend = Drop(@, k)])
    /\ UNCHANGED main

\* The transport closes the request body once the exchange is over: RoundTrip
\* failed, or copyProxy returned (its deferred res.Body.Close()).
TransportCloseBody(s) ==
    /\ Serving
    /\ sess[s].cpPc = "returned"
    /\ ~sess[s].prClosed
    /\ Set(s, [sess[s] EXCEPT !.prClosed = TRUE])
    /\ UNCHANGED main

(***************************************************************************)
(* Specifications.                                                         *)
(***************************************************************************)
SessionStep(s) ==
    \/ Accept(s)
    \/ HcStart(s)
    \/ HcSelect(s)
    \/ HcCloseConn(s)
    \/ HcClosePipe(s)
    \/ CpRoundTrip(s)
    \/ CpBodyRead(s)
    \/ CpConnWrite(s)
    \/ CcGetLocalIP(s)
    \/ CcPeek(s)
    \/ CcPipeWrite(s)
    \/ CcFill(s)
    \/ ClientClose(s)
    \/ TransportReadBody(s)
    \/ TransportCloseBody(s)

Next ==
    \/ Startup
    \/ AcceptError
    \/ \E s \in Sessions : SessionStep(s)

Spec == Init /\ [][Next]_vars

NextProc ==
    \/ Startup
    \/ AcceptError
    \/ \E s \in Sessions2 : SessionStep(s)

SpecProc == InitProc /\ [][NextProc]_vars

\* The steps of handleConnection: none waits on anything but the select, and
\* the select is enabled as soon as a signal is pending.
HcStep(s) == HcStart(s) \/ HcSelect(s) \/ HcCloseConn(s) \/ HcClosePipe(s)

\* The steps of copyClient that return without the client's or the
\* transport's help: the local address lookup, a pipe write whose bytes were
\* taken or whose pipe is closed, a read of a connection that is closed, reset
\* or at EOF.
CcStep(s) ==
    \/ CcGetLocalIP(s)
    \/ CcPipeWrite(s)
    \/ "data" \notin ConnReadOutcomes(sess[s]) /\ (CcPeek(s) \/ CcFill(s))

\* The step of copyProxy that returns without the upstream's help: the write
\* to the client connection.  RoundTrip and the read of the response body
\* return when the upstream or the transport makes them return.
CpStep(s) == CpConnWrite(s)

\* The Go scheduler runs every goroutine that can run; the client, the
\* upstream and the transport's progress carry no such promise.
SpecLive ==
    /\ Init /\ [][Next]_vars
    /\ \A s \in Sessions :
          WF_vars(HcStep(s)) /\ WF_vars(CcStep(s)) /\ WF_vars(CpStep(s))

(***************************************************************************)
(* The sequential handleConnection of main.go, which holds the error       *)
(* classifier: RoundTrip, the header, a goroutine copying client->pipe,    *)
(* the upstream->client copy in handleConnection itself, the classifier,   *)
(* the deferred closes.                                                    *)
(***************************************************************************)
\* An error is the sequence of its types, the outermost first; nil is <<>>.
Nil == <<>>

\* errors.Unwrap: the wrapped error, nil when the error wraps nothing.
Unwrap(e) == IF Len(e) > 1 THEN Tail(e) ELSE Nil

\* switch err.(type) { case ConnectionError: case GoAwayError:
\*                     case StreamError: reset = true }
\* A case of a Go switch does not fall through: only the last one assigns.
TypeSwitch(e) ==
    CASE Head(e) = "ConnectionError" -> FALSE
      [] Head(e) = "GoAwayError" -> FALSE
      [] Head(e) = "StreamError" -> TRUE
      [] OTHER -> FALSE

\* if err != nil { if err := errors.Unwrap(err); err != nil { switch ... } }
Classify(e) ==
    IF e # Nil /\ Unwrap(e) # Nil THEN TypeSwitch(Unwrap(e)) ELSE FALSE

\* The errors a read of the response body returns: each kind bare, wrapped
\* once, and a protocol error wrapped twice.
BodyErrors ==
    {<<k>> : k \in ReadErrors} \union {<<"wrapped", k>> : k \in ReadErrors}
        \union {<<"wrapped", "wrapped", "StreamError">>}

WriteError == <<"OpError", "EPIPE">>         \* conn.Write on a dead connection
ReadError == <<"OpError", "ECONNRESET">>     \* conn.Read on a dead connection
ErrClosedPipe == <<"ErrClosedPipe">>         \* pw.Write on a closed pipe

NoSessionV3(cliBytes, upBytes) ==
    [ cliBytes |-> cliBytes,
      upBytes |-> upBytes,
      hcPc |-> "idle",          \* idle, start, header, whdr, body_read, conn_write,
                                \* classify, close_body, close_pw, close_conn, returned
      reset |-> FALSE,
      closePipe |-> TRUE,
      err |-> Nil,              \* the err shared with the goroutine
      classified |-> <<"none">>,\* the value of err the classifier looked at
      conn |-> "open",
      linger0 |-> FALSE,
      closeKind |-> "none",
      peer |-> "open",
      connRead |-> <<>>,
      connWritten |-> <<>>,
      logRead |-> <<>>,
      logWrote |-> <<>>,
      goPc |-> "idle",          \* the goroutine: idle, read, write, returned
      dial |-> "none",
      header |-> <<>>,
      pwPend |-> <<>>,
      pipeOut |-> <<>>,
      pwClosed |-> FALSE,
      prClosed |-> FALSE,
      status |-> "unknown",
      respRead |-> 0,
      cpPend |-> <<>> ]

InitV3 ==
    /\ main = [pc |-> "startup", exitBy |-> "none"]
    /\ sess = [s \in Sessions |-> NoSessionV3(MaxBytes, MaxResp)]

\* res, err := tr.RoundTrip(req); an error or a status other than 200 sets
\* reset and returns through the deferred closes.
V3RoundTrip(s) ==
    /\ Serving
    /\ sess[s].hcPc = "start"
    /\ \E outcome \in {"err", "503", "200"} :
          Set(s, [sess[s] EXCEPT
                    !.status = outcome,
                    !.reset = IF outcome = "200" THEN @ ELSE TRUE,
                    !.hcPc = CASE outcome = "200" -> "header"
                               [] outcome = "503" -> "close_body"
                               [] OTHER -> "close_pw"])
    /\ UNCHANGED main

\* getLocalIP, getRemotePort and the start of fmt.Fprintf(pw, header).  A
\* failed net.Dial panics in getLocalIP: the deferred closes run (reset is
\* false) and the runtime ends the process.
V3Header(s) ==
    /\ Serving
    /\ sess[s].hcPc = "header"
    /\ \/ /\ Set(s, [sess[s] EXCEPT !.dial = "ok",
                                    !.header = BuildHeader(LocalIP, RemotePort),
                                    !.pwPend = BuildHeader(LocalIP, RemotePort),
                                    !.hcPc = "whdr"])
          /\ UNCHANGED main
       \/ /\ Set(s, [sess[s] EXCEPT !.dial = "fail", !.prClosed = TRUE,
                                    !.pwClosed = TRUE, !.conn = "closed",
                                    !.closeKind = CloseKind(sess[s]),
                                    !.hcPc = "returned"])
          /\ main' = [pc |-> "exited", exitBy |-> "panic"]

\* fmt.Fprintf(pw, header) returned: the transport took the header, and the
\* goroutine is started with closePipe = false; or the pipe's read end was
\* closed, and handleConnection returns.
V3HeaderWritten(s) ==
    /\ Serving
    /\ sess[s].hcPc = "whdr"
    /\ \/ /\ sess[s].pwPend = <<>> /\ ~sess[s].prClosed
          /\ Set(s, [sess[s] EXCEPT !.closePipe = FALSE, !.goPc = "read",
                                    !.hcPc = "body_read"])
       \/ /\ sess[s].prClosed
          /\ Set(s, [sess[s] EXCEPT !.pwPend = <<>>, !.hcPc = "close_body"])
    /\ UNCHANGED main

\* The goroutine returns: `_, err = io.Copy(pw, src)` stores into the err of
\* handleConnection, unsynchronised, then the deferred pw.Close() runs.
GoReturn(r, e) == [r EXCEPT !.err = e, !.pwClosed = TRUE, !.goPc = "returned"]

\* The goroutine's io.Copy reads the client connection through the TeeReader.
V3GoRead(s) ==
    /\ Serving
    /\ sess[s].goPc = "read"
    /\ \E o \in ConnReadOutcomes(sess[s]) :
          IF o = "data"
          THEN \E n \in 1..(sess[s].cliBytes - Len(sess[s].connRead)) :
                  LET p == ClientChunk(Len(sess[s].connRead), n) IN
                  Set(s, [ConnRead(sess[s], p) EXCEPT !.pwPend = p,
                                                      !.goPc = "write"])
          ELSE Set(s, GoReturn(sess[s], IF o = "eof" THEN Nil ELSE ReadError))
    /\ UNCHANGED main

\* The goroutine's pw.Write returned.
V3GoWrite(s) ==
    /\ Serving
    /\ sess[s].goPc = "write"
    /\ \/ /\ sess[s].pwPend = <<>> /\ ~sess[s].prClosed
          /\ Set(s, [sess[s] EXCEPT !.goPc = "read"])
       \/ /\ sess[s].prClosed
          /\ Set(s, GoReturn([sess[s] EXCEPT !.pwPend = <<>>], ErrClosedPipe))
    /\ UNCHANGED main

\* io.Copy(conn, src) reads the response body: data, EOF (io.Copy returns
\* nil) or an error, stored in err.
V3BodyRead(s) ==
    /\ Serving
    /\ sess[s].hcPc = "body_read"
    /\ \/ \E n \in 1..(sess[s].upBytes - sess[s].respRead) :
             LET p == BodyChunk(sess[s].respRead, n) IN
             Set(s, [sess[s] EXCEPT !.respRead = @ + n,
                                    !.logWrote = TeeRead(@, p),
                                    !.cpPend = p, !.hcPc = "conn_write"])
       \/ \E e \in BodyErrors \union {Nil} :
             Set(s, [sess[s] EXCEPT !.err = e, !.hcPc = "classify"])
    /\ UNCHANGED main

\* io.Copy(conn, src) writes to the client connection.
V3ConnWrite(s) ==
    /\ Serving
    /\ sess[s].hcPc = "conn_write"
    /\ \/ /\ sess[s].peer # "rst"
          /\ \E k \in 1..Len(sess[s].cpPend) :
                Set(s, [sess[s] EXCEPT
                          !.connWritten = @ \o Take(sess[s].cpPend, k),
                          !.cpPend = Drop(@, k),
                          !.hcPc = IF k = Len(sess[s].cpPend)
                                   THEN "body_read" ELSE @])
       \/ /\ sess[s].peer = "rst"
          /\ Set(s, [sess[s] EXCEPT !.cpPend = <<>>, !.err = WriteError,
                                    !.hcPc = "classify"])
    /\ UNCHANGED main

\* if err != nil { ... the classifier ... }: err is read after the copy has
\* returned, so it holds what the copy stored or what the goroutine stored
\* since.
V3Classify(s) ==
    /\ Serving
    /\ sess[s].hcPc = "classify"
    /\ Set(s, [sess[s] EXCEPT !.classified = sess[s].err,
                              !.reset = @ \/ Classify(sess[s].err),
                              !.hcPc = "close_body"])
    /\ UNCHANGED main

\* The deferred res.Body.Close(): the transport ends the stream and closes
\* the request body.
V3CloseBody(s) ==
    /\ Serving
    /\ sess[s].hcPc = "close_body"
    /\ Set(s, [sess[s] EXCEPT !.prClosed = TRUE, !.hcPc = "close_pw"])
    /\ UNCHANGED main

\* The deferred func: if closePipe { pw.Close() }
V3ClosePipe(s) ==
    /\ Serving
    /\ sess[s].hcPc = "close_pw"
    /\ Set(s, [sess[s] EXCEPT !.pwClosed = @ \/ sess[s].closePipe,
                              !.hcPc = "close_conn"])
    /\ UNCHANGED main

\* The deferred func: if reset { SetLinger(0) }; conn.Close()
V3CloseConn(s) ==
    /\ Serving
    /\ sess[s].hcPc = "close_conn"
    /\ LET r == [sess[s] EXCEPT !.linger0 = sess[s].reset] IN
       Set(s, [r EXCEPT !.conn = "closed", !.closeKind = CloseKind(r),
                        !.hcPc = "returned"])
    /\ UNCHANGED main

\* The transport reads the request body.
V3TransportReadBody(s) ==
    /\ Serving
    /\ sess[s].hcPc # "idle"
    /\ ~sess[s].pwClosed /\ ~sess[s].prClosed
    /\ \E k \in 1..Len(sess[s].pwPend) :
          Set(s, [sess[s] EXCEPT !.pipeOut = @ \o Take(sess[s].pwPend, k),
                                 !.pwPend = Drop(@, k)])
    /\ UNCHANGED main

\* The stream ends on the upstream's side after the 200 (a reset, a lost
\* connection): the transport closes the request body.
V3TransportCloseBody(s) ==
    /\ Serving
    /\ sess[s].status = "200"
    /\ ~sess[s].prClosed
    /\ Set(s, [sess[s] EXCEPT !.prClosed = TRUE])
    /\ UNCHANGED main

SessionStepV3(s) ==
    \/ Accept(s)
    \/ V3RoundTrip(s)
    \/ V3Header(s)
    \/ V3HeaderWritten(s)
    \/ V3GoRead(s)
    \/ V3GoWrite(s)
    \/ V3BodyRead(s)
    \/ V3ConnWrite(s)
    \/ V3Classify(s)
    \/ V3CloseBody(s)
    \/ V3ClosePipe(s)
    \/ V3CloseConn(s)
    \/ ClientClose(s)
    \/ V3TransportReadBody(s)
    \/ V3TransportCloseBody(s)

NextV3 ==
    \/ Startup
    \/ AcceptError
    \/ \E s \in Sessions : SessionStepV3(s)

SpecV3 == InitV3 /\ [][NextV3]_vars

(***************************************************************************)
(* Properties.                                                             *)
(***************************************************************************)
All == DOMAIN sess

ConnectFailed(r) == r.status \in {"err", "503"}
ProtocolFatal == {"StreamError", "ConnectionError", "GoAwayError"}

\* C1: a session whose CONNECT attempt did not yield status 200 closes the
\* client connection with zero linger (a reset), never with a graceful close.
C1_ConnectFailureResets ==
    \A s \in All :
        (ConnectFailed(sess[s]) /\ sess[s].conn = "closed")
            => sess[s].closeKind = "reset"

\* C2: when the upstream->client copy ended with a protocol-fatal error, the
\* client connection has been reset, not gracefully closed, by the time
\* handleConnection returns.
C2_FatalCopyErrorResets ==
    \A s \in All :
        (sess[s].cpEnd \in ProtocolFatal /\ sess[s].hcPc = "returned")
            => sess[s].closeKind = "reset"

\* C3: with status 200 and both copy directions ending on a clean
\* end-of-stream, SetLinger(0) is never called and the close is graceful.
C3_CleanEndsCloseGracefully ==
    \A s \in All :
        (sess[s].status = "200" /\ sess[s].cpEnd = "eof" /\ sess[s].ccEnd = "eof")
            => /\ ~sess[s].linger0
               /\ sess[s].closeKind # "reset"
               /\ sess[s].hcPc = "returned" => sess[s].closeKind = "graceful"

C3_Witness ==
    \E s \in All :
        /\ sess[s].status = "200" /\ sess[s].cpEnd = "eof" /\ sess[s].ccEnd = "eof"
        /\ sess[s].hcPc = "returned" /\ sess[s].closeKind = "graceful"
        /\ sess[s].connRead # <<>> /\ sess[s].connWritten # <<>>

\* C4: when getLocalIP's UDP dial fails the session goes on with an empty
\* header: the process does not panic and copyClient is not cut off.
C4_DialFailureSurvives ==
    \A s \in All :
        sess[s].dial = "fail"
            => main.exitBy # "panic" /\ sess[s].ccPc # "panicked"

\* C5: a failure inside one session never ends the process: a connection
\* that is under way, and whose own header resolution did not fail, loses its
\* process only to an Accept error.
C5_SessionFailuresContained ==
    \A s \in All :
        (sess[s].hcPc \in {"select", "close_conn", "close_pw"}
            /\ sess[s].dial = "ok" /\ main.pc = "exited")
            => main.exitBy = "accept"

\* C6: what the pipe's reader has received is a prefix of the header, or the
\* whole header followed by client bytes only: no client byte precedes the
\* complete header and the header occurs once.
C6_HeaderIsPrefix ==
    \A s \in All :
        LET out == sess[s].pipeOut
            h == sess[s].header
        IN  \/ IsPrefix(out, h)
            \/ /\ IsPrefix(h, out)
               /\ \A i \in (Len(h) + 1)..Len(out) : out[i][1] = "cli"

C6_Witness ==
    \E s \in All :
        /\ sess[s].header # <<>>
        /\ Len(sess[s].pipeOut) > Len(sess[s].header)

\* The client connection ended (EOF or read error) before delivering a byte.
ClientSentNothing(r) == r.ccEnd \in {"eof", "read_err"} /\ r.connRead = <<>>

\* C7 as claimed: if the client connection ends before delivering any byte,
\* nothing is written to the pipe, no byte count is logged for the client
\* direction, and handleConnection returns with the pipe's write end closed
\* and the connection closed gracefully.
C7_SilentClientClosesGracefully ==
    \A s \in All :
        ClientSentNothing(sess[s])
            => /\ sess[s].pipeOut = <<>> /\ sess[s].pwPend = <<>>
               /\ sess[s].logRead = <<>>
               /\ sess[s].hcPc = "returned"
                    => sess[s].pwClosed /\ sess[s].closeKind = "graceful"

\* C7 as amended: the same, but the close is graceful exactly when the select
\* consumed a completion signal; it is a reset when the select consumed the
\* upstream direction's failure signal.
C7_SilentClientWritesNothing ==
    \A s \in All :
        ClientSentNothing(sess[s])
            => /\ sess[s].pipeOut = <<>> /\ sess[s].pwPend = <<>>
               /\ sess[s].logRead = <<>>
               /\ sess[s].hcPc = "returned"
                    => /\ sess[s].pwClosed
                       /\ sess[s].sel = "done" => sess[s].closeKind = "graceful"
                       /\ sess[s].sel = "doneError" => sess[s].closeKind = "reset"

C7_Witness ==
    \E s \in All :
        /\ ClientSentNothing(sess[s]) /\ sess[s].ccEnd = "eof"
        /\ sess[s].hcPc = "returned" /\ sess[s].sel = "done"
        /\ sess[s].status = "200"

\* C8: no header or client byte reaches the pipe and no response byte reaches
\* the client before the CONNECT status is known, and none at all in a
\* session whose CONNECT attempt did not yield status 200.
C8_StatusKnownBeforePayload ==
    \A s \in All :
        (sess[s].status = "unknown" \/ ConnectFailed(sess[s]))
            => sess[s].pipeOut = <<>> /\ sess[s].connWritten = <<>>

\* C9: whenever handleConnection has returned, the client connection and the
\* pipe's write end have both been closed.
C9_ReturnClosesBoth ==
    \A s \in All :
        sess[s].hcPc = "returned"
            => /\ sess[s].conn = "closed" /\ sess[s].closeKind # "none"
               /\ sess[s].pwClosed

C9_Witness ==
    \E s \in All :
        /\ sess[s].hcPc = "returned" /\ sess[s].sel = "doneError"
        /\ sess[s].status = "503"

\* C10: the counts logged for the client->upstream direction add up to the
\* bytes read from the client connection, and, whenever no conn.Write is in
\* progress, the counts logged for the upstream->client direction add up to
\* the bytes written to the client connection.
C10_LoggedCountsMatch ==
    \A s \in All :
        /\ SumSeq(sess[s].logRead) = Len(sess[s].connRead)
        /\ sess[s].cpPc # "conn_write"
             => SumSeq(sess[s].logWrote) = Len(sess[s].connWritten)

\* The upstream direction has sent its failure signal.
CpSentFailure(r) == r.cpPc = "returned" /\ r.cpEnd # "eof"
\* One if the condition holds, zero otherwise.
Count(b) == IF b THEN 1 ELSE 0

\* C12: an upstream->client copy error outside the protocol-fatal set (a
\* timeout, a failed write to the client) never causes SetLinger(0): the
\* client connection is closed gracefully.
C12_BenignErrorsCloseGracefully ==
    \A s \in All :
        sess[s].cpEnd \in {"timeout", "write_err"}
            => ~sess[s].linger0 /\ sess[s].closeKind # "reset"

\* C13: each direction sends at most one signal (copyClient one on done,
\* copyProxy one on done or doneError), the channels never hold more than
\* their capacity, and a direction that has yet to send always finds room.
C13_SendsNeverBlock ==
    \A s \in All :
        LET r == sess[s] IN
        /\ r.done <= DoneCap /\ r.doneError <= DoneErrorCap
        /\ r.done + Count(r.sel = "done")
             = Count(r.ccPc \in {"returned", "panicked"})
               + Count(r.cpPc = "returned" /\ r.cpEnd = "eof")
        /\ r.doneError + Count(r.sel = "doneError") = Count(CpSentFailure(r))
        /\ r.ccPc \in {"start", "peek", "whdr", "wbuf", "fill"}
             => r.done < DoneCap
        /\ r.cpPc \in {"roundtrip", "body_read", "conn_write"}
             => r.done < DoneCap /\ r.doneError < DoneErrorCap

C13_Witness ==
    \E s \in All :
        /\ sess[s].hcPc = "returned" /\ sess[s].sel = "done"
        /\ sess[s].ccPc = "returned" /\ sess[s].cpPc = "returned"
        /\ sess[s].done = 1 /\ sess[s].doneError = 0

\* C14: handleConnection receives one signal per session and that signal
\* fixes the outcome: once the select has chosen, neither the choice, nor the
\* linger setting, nor the kind of close changes again, zero linger is set
\* exactly when the failure channel was chosen, and a signal that arrives
\* after the return stays in its channel.
C14_OneSignalDecides ==
    [][\A s \in All :
          LET r == sess[s]
              q == sess'[s]
          IN  /\ r.sel # "none" => q.sel = r.sel /\ q.linger0 = r.linger0
              /\ r.closeKind # "none"
                   => q.closeKind = r.closeKind /\ q.conn = "closed"
              /\ q.linger0 <=> q.sel = "doneError"
              /\ r.hcPc = "returned"
                   => /\ q.hcPc = "returned"
                      /\ q.done >= r.done /\ q.doneError >= r.doneError]_vars

C14_Witness ==
    \E s \in All :
        /\ sess[s].hcPc = "returned" /\ sess[s].sel = "done"
        /\ sess[s].closeKind = "graceful" /\ sess[s].doneError = 1

\* C15: when one direction finishes first (the select received a completion
\* signal), the session never closes the client connection or the pipe while
\* the other direction still holds bytes it has read and not yet written.
C15_NoBytesInFlightAtClose ==
    \A s \in All :
        sess[s].sel = "done"
            => /\ sess[s].conn = "closed" => sess[s].cpPend = <<>>
               /\ sess[s].pwClosed
                    => sess[s].pwPend = <<>> /\ sess[s].buf = <<>>

\* C17 as claimed: copyClient never signals a failure, and it sends its
\* completion signal only after the pipe's write end has been closed.
C17_SignalAfterPipeClosed ==
    \A s \in All :
        /\ (sess[s].doneError > 0 \/ sess[s].sel = "doneError")
             => CpSentFailure(sess[s])
        /\ sess[s].ccPc = "returned" => sess[s].pwClosed

\* C17 as amended: copyClient never signals a failure, so a reset always goes
\* back to a failure of the upstream direction; it sends a completion signal
\* on every return, and the pipe's write end is closed by handleConnection's
\* teardown, which may come after that signal.
C17_ClientDirectionNeverFails ==
    \A s \in All :
        LET r == sess[s] IN
        /\ (r.doneError > 0 \/ r.sel = "doneError") => CpSentFailure(r)
        /\ r.ccPc = "returned"
             => r.done + Count(r.sel = "done") >= 1
        /\ r.linger0 => CpSentFailure(r)
        /\ r.hcPc = "returned" => r.pwClosed

C17_Witness ==
    \E s \in All :
        /\ sess[s].ccEnd = "read_err" /\ sess[s].peer = "rst"
        /\ sess[s].connRead # <<>> /\ sess[s].status = "200"
        /\ sess[s].hcPc = "returned" /\ sess[s].sel = "done"
        /\ sess[s].closeKind = "graceful"

\* C18: what the pipe's reader has received is a prefix of the header
\* followed by the bytes read from the client, in order; while copyClient is
\* copying, the bytes it still holds are exactly the rest.
C18_PipeCarriesHeaderThenClientBytes ==
    \A s \in All :
        LET r == sess[s] IN
        /\ IsPrefix(r.pipeOut, r.header \o r.connRead)
        /\ r.ccPc \in {"whdr", "wbuf", "fill"}
             => r.pipeOut \o r.pwPend \o r.buf = r.header \o r.connRead

C18_Witness ==
    \E s \in All :
        /\ sess[s].header # <<>> /\ Len(sess[s].connRead) >= 2
        /\ sess[s].pipeOut = sess[s].header \o sess[s].connRead

\* C19: SetLinger(0) is called only when the select received the failure
\* signal, which only copyProxy sends (RoundTrip error, status other than
\* 200, copy error), and it precedes conn.Close: a closed connection was
\* reset exactly when zero linger had been set.
C19_ResetOnlyOnFailure ==
    \A s \in All :
        LET r == sess[s] IN
        /\ r.linger0
             => /\ r.sel = "doneError"
                /\ r.hcPc \in {"close_conn", "close_pw", "returned"}
                /\ ConnectFailed(r) \/ r.cpEnd \in ReadErrors \union {"write_err"}
        /\ r.conn = "closed" => (r.closeKind = "reset" <=> r.linger0)
        /\ r.conn = "open" => r.closeKind = "none"

C19_Witness ==
    \E s \in All :
        /\ sess[s].hcPc = "returned" /\ sess[s].closeKind = "reset"
        /\ sess[s].cpEnd = "StreamError" /\ sess[s].connWritten # <<>>

\* C16: once handleConnection has closed the client connection and the pipe
\* and returned, both copy directions eventually return (or the process has
\* ended).
C16_TeardownUnblocksDirections ==
    \A s \in Sessions :
        (sess[s].hcPc = "returned")
            ~> \/ main.pc = "exited"
               \/ sess[s].ccPc = "returned" /\ sess[s].cpPc = "returned"

\* C20: once the client has closed or reset its side of a session's
\* connection, handleConnection eventually tears the session down and returns
\* (or the process has ended), whatever the upstream does.
C20_ClientEndTearsDown ==
    \A s \in Sessions :
        (sess[s].hcPc # "idle" /\ sess[s].peer \in {"fin", "rst"})
            ~> \/ main.pc = "exited"
               \/ sess[s].hcPc = "returned" /\ sess[s].conn = "closed"
                    /\ sess[s].pwClosed

\* C11: whenever the classifier has looked at an error that, unwrapped once,
\* is a StreamError, a ConnectionError or a GoAwayError, it has set reset.
C11_ClassifierResetsOnFatal ==
    \A s \in All :
        LET e == sess[s].classified IN
        (e # <<"none">> /\ Unwrap(e) # Nil /\ Head(Unwrap(e)) \in ProtocolFatal)
            => sess[s].reset

====
